---- MODULE Spec2Model ----
(***************************************************************************)
(* OCRspellcheck: calculate_error_rates_using_spellcheck.py                *)
(*                                                                         *)
(* Two specifications:                                                     *)
(*   WalkSpec  the loop of calculate_error_rate, one step per segment /    *)
(*             token, on texts drawn from bounded sets;                    *)
(*   Spec      collect_spellcheck_error_data_in_folder, one step per       *)
(*             discovered file, over a small file system.                  *)
(*                                                                         *)
(* A character is a one-character string; the Arabic letters are written   *)
(* by name ("kaf", "ta", "alif", "ba").  A text, a token and a path are    *)
(* sequences of characters; the empty string is <<>>.                      *)
(*                                                                         *)
(* Left out: the printing under verbose; errors of the file system (the    *)
(* directory of the per-book files exists, every file can be read and      *)
(* written), so the only exception is the division by zero.                *)
(***************************************************************************)
EXTENDS Integers, Sequences, FiniteSets, TLC

\* ------------------------------------------------------------------ bounds
\* number of chunks a generated text is made of
MaxChunks == 3

\* number of files get_all_text_files_in_folder finds
MaxFiles == 2

\* ------------------------------------------------------------- characters
Digits == {"0", "1", "2", "3", "4", "5", "6", "7", "8", "9"}

ArabicLetters == {"kaf", "ta", "alif", "ba"}

LatinLetters == {"P", "V", "a", "d", "e", "f", "g", "h", "l", "o", "r", "s", "w"}

\* ar_tok, the default token pattern: one or more Arabic characters.  A token
\* pattern is modelled by its character class; a match is a maximal run.
ar_tok == ArabicLetters

\* the pattern \w+ ("word runs"): letters of any script, digits, underscore
WordRuns == LatinLetters \cup ArabicLetters \cup Digits \cup {"_"}

\* the default of the parameter `long`
DefaultLong == 8

\* ------------------------------------------------------------------ texts
PageV01P001 == <<"P", "a", "g", "e", "V", "0", "1", "P", "0", "0", "1">>

PageV01P002 == <<"P", "a", "g", "e", "V", "0", "1", "P", "0", "0", "2">>

hello == <<"h", "e", "l", "l", "o">>

world == <<"w", "o", "r", "l", "d">>

foo == <<"f", "o", "o">>

kitab == <<"kaf", "ta", "alif", "ba">>

bab == <<"ba", "alif", "ba">>

Pages == <<"P", "a", "g", "e", "s">>

META_END == <<"#", "M", "E", "T", "A", "#", "H", "e", "a", "d", "e", "r", "#", "E", "n", "d">>

\* the text of the worked example: "PageV01P001hello world PageV01P002foo"
ExampleText == PageV01P001 \o hello \o <<" ">> \o world \o <<" ">> \o PageV01P002 \o foo

Chunks ==
    { PageV01P001, PageV01P002, hello \o <<" ">> \o world \o <<" ">>, foo,
      Pages \o <<" ">>, kitab \o <<" ">> }

RECURSIVE Concat(_)
Concat(ss) == IF ss = <<>> THEN <<>> ELSE Head(ss) \o Concat(Tail(ss))

\* every concatenation of at most MaxChunks chunks
Texts == UNION { { Concat(cs) : cs \in [1..n -> Chunks] } : n \in 0..MaxChunks }

\* ------------------------------------------------------------- predicates
\* A spellcheck predicate token -> bool is given by a set of tokens and a flag:
\* it recognises exactly the tokens of the set (neg = FALSE) or exactly the
\* tokens outside it (neg = TRUE).
Call(f, tok) == (tok \in f.toks) # f.neg

Predicates ==
    { [neg |-> FALSE, toks |-> {}],               \* recognises nothing
      [neg |-> TRUE,  toks |-> {}],               \* recognises everything
      [neg |-> TRUE,  toks |-> {foo}],            \* everything but "foo"
      [neg |-> FALSE, toks |-> {hello, kitab}] }

LongValues == {4, DefaultLong}

TokenPatterns == {WordRuns, ar_tok}

\* ------------------------------------------------------------- re.split
startswith(p, prefix) ==
    Len(p) >= Len(prefix) /\ SubSeq(p, 1, Len(prefix)) = prefix

RECURSIVE DigitRun(_, _)
\* length of the maximal run of digits of t that starts at position i
DigitRun(t, i) ==
    IF i <= Len(t) /\ t[i] \in Digits THEN 1 + DigitRun(t, i + 1) ELSE 0

\* PageV\d+P\d+ matched at position i of t: the position after the match,
\* or 0 when there is no match at i.  Both \d+ are greedy; no digit is "P",
\* so only the maximal runs can match.
MarkerEnd(t, i) ==
    IF ~ startswith(SubSeq(t, i, Len(t)), <<"P", "a", "g", "e", "V">>) THEN 0
    ELSE LET n1 == DigitRun(t, i + 5)
             j  == i + 5 + n1
         IN  IF n1 = 0 \/ j > Len(t) \/ t[j] # "P" THEN 0
             ELSE LET n2 == DigitRun(t, j + 1)
                  IN  IF n2 = 0 THEN 0 ELSE j + 1 + n2

RECURSIVE SplitFrom(_, _, _)
\* start: where the current inter-marker segment begins; i: scan position
SplitFrom(t, start, i) ==
    IF i > Len(t) THEN << SubSeq(t, start, Len(t)) >>
    ELSE LET e == MarkerEnd(t, i)
         IN  IF e > 0
             THEN << SubSeq(t, start, i - 1), SubSeq(t, i, e - 1) >> \o SplitFrom(t, e, e)
             ELSE SplitFrom(t, start, i + 1)

\* re.split("(PageV\d+P\d+)", t): the markers are kept, interleaved with the
\* text between them (which may be empty)
re_split(t) == SplitFrom(t, 1, 1)

\* a segment is a page marker when the whole of it matches PageV\d+P\d+
IsMarker(p) == Len(p) > 0 /\ MarkerEnd(p, 1) = Len(p) + 1

\* ----------------------------------------------------------- re.finditer
RECURSIVE ClassRun(_, _, _)
ClassRun(cls, p, i) ==
    IF i <= Len(p) /\ p[i] \in cls THEN 1 + ClassRun(cls, p, i + 1) ELSE 0

RECURSIVE FindFrom(_, _, _)
FindFrom(cls, p, i) ==
    IF i > Len(p) THEN <<>>
    ELSE LET n == ClassRun(cls, p, i)
         IN  IF n = 0 THEN FindFrom(cls, p, i + 1)
             ELSE << SubSeq(p, i, i + n - 1) >> \o FindFrom(cls, p, i + n)

\* the matches of re.finditer(token_regex, p), in order
finditer(token_regex, p) == FindFrom(token_regex, p, 1)

\* ----------------------------------------------------- calculate_error_rate
VARIABLES
    t,                \* the text of the book
    spellcheck_func,  \* the predicate given to calculate_error_rate
    token_regex,      \* the token pattern (its character class)
    long,             \* the "long token" threshold
    segs,             \* the list re.split returned
    si,               \* position of the for loop in segs
    toks,             \* what the finditer iterator of the current segment has left
    errors,           \* the book-level dict
    page_errors,      \* the running page dict
    pc,               \* "seg", "tok", "done", "raised"; "off" outside WalkSpec
    cur               \* history: the tokens counted since the last flush

walk_vars == <<t, spellcheck_func, token_regex, long, segs, si, toks, errors,
               page_errors, pc, cur>>

ZeroErrors == [all |-> 0, long |-> 0, tok_count |-> 0, page_errors |-> <<>>]

ZeroPage == [all |-> 0, long |-> 0, tok_count |-> 0, page_no |-> <<>>]

Page == <<"P", "a", "g", "e">>

\* the test that decides between the two branches of the loop body
IsFlushSegment(p) == startswith(p, Page)

\* Bump with the length test outside the test of the predicate
Bump_LongUnguarded(c, tok, f, lng) ==
    LET err == (Call(f, tok) = FALSE)
    IN  [c EXCEPT !.tok_count = @ + 1,
                  !.all = IF err THEN @ + 1 ELSE @,
                  !.long = IF Len(tok) > lng THEN @ + 1 ELSE @]

\* the counters of one dict after one token: tok_count always, "all" when the
\* predicate returned False, "long" when moreover len(tok) > long
Bump(c, tok, f, lng) ==
    LET err == (Call(f, tok) = FALSE)
    IN  [c EXCEPT !.tok_count = @ + 1,
                  !.all = IF err THEN @ + 1 ELSE @,
                  !.long = IF err /\ Len(tok) > lng THEN @ + 1 ELSE @]

\* FlushPage that appends the running dict before it is given its page_no
FlushPage_NoStamp(e, pe, p) ==
    [errors      |-> [e EXCEPT !.page_errors = Append(@, pe)],
     page_errors |-> ZeroPage]

\* FlushPage that keeps counting in the dict it has just appended
FlushPage_NoReset(e, pe, p) ==
    [errors      |-> [e EXCEPT !.page_errors = Append(@, [pe EXCEPT !.page_no = p])],
     page_errors |-> [pe EXCEPT !.page_no = p]]

\* end of page: stamp the running dict with the segment, append it, start anew
FlushPage(e, pe, p) ==
    [errors      |-> [e EXCEPT !.page_errors = Append(@, [pe EXCEPT !.page_no = p])],
     page_errors |-> ZeroPage]

\* CountToken that forgets the page dict
CountToken_BookOnly(e, pe, tok, f, lng) ==
    [errors |-> Bump(e, tok, f, lng), page_errors |-> pe]

\* one token: both dicts get the same update
CountToken(e, pe, tok, f, lng) ==
    [errors |-> Bump(e, tok, f, lng), page_errors |-> Bump(pe, tok, f, lng)]

RECURSIVE GCD(_, _)
GCD(a, b) == IF b = 0 THEN a ELSE GCD(b, a % b)

\* a / b of two ints, b > 0: the float, written as the fraction in lowest terms
TrueDiv(a, b) == << a \div GCD(a, b), b \div GCD(a, b) >>

\* the two rates added to the book-level dict
WithRates(e) ==
    e @@ [error_rate             |-> TrueDiv(e.all, e.tok_count),
          long_tokens_error_rate |-> TrueDiv(e.long, e.tok_count)]

\* --- the steps of the loop
Flush ==
    /\ pc = "seg" /\ si <= Len(segs)
    /\ IsFlushSegment(segs[si])
    /\ LET r == FlushPage(errors, page_errors, segs[si])
       IN  errors' = r.errors /\ page_errors' = r.page_errors
    /\ si' = si + 1
    /\ cur' = <<>>
    /\ UNCHANGED <<t, spellcheck_func, token_regex, long, segs, toks, pc>>

Tokenize ==
    /\ pc = "seg" /\ si <= Len(segs)
    /\ ~ IsFlushSegment(segs[si])
    /\ toks' = IF segs[si] # <<>> THEN finditer(token_regex, segs[si]) ELSE <<>>
    /\ pc' = "tok"
    /\ UNCHANGED <<t, spellcheck_func, token_regex, long, segs, si, errors,
                   page_errors, cur>>

Count ==
    /\ pc = "tok" /\ toks # <<>>
    /\ LET r == CountToken(errors, page_errors, Head(toks), spellcheck_func, long)
       IN  errors' = r.errors /\ page_errors' = r.page_errors
    /\ toks' = Tail(toks)
    /\ cur' = Append(cur, Head(toks))
    /\ UNCHANGED <<t, spellcheck_func, token_regex, long, segs, si, pc>>

EndSegment ==
    /\ pc = "tok" /\ toks = <<>>
    /\ si' = si + 1
    /\ pc' = "seg"
    /\ UNCHANGED <<t, spellcheck_func, token_regex, long, segs, toks, errors,
                   page_errors, cur>>

\* after the loop: the two divisions, ZeroDivisionError when tok_count is 0
Return ==
    /\ pc = "seg" /\ si > Len(segs)
    /\ IF errors.tok_count = 0
       THEN pc' = "raised" /\ errors' = errors
       ELSE pc' = "done" /\ errors' = WithRates(errors)
    /\ UNCHANGED <<t, spellcheck_func, token_regex, long, segs, si, toks,
                   page_errors, cur>>

\* --- collect_spellcheck_error_data_in_folder and its file system
VARIABLES
    folder,       \* the files get_all_text_files_in_folder yields, with their content
    d,            \* the enchant dictionary loaded at import
    outfolder,    \* the per-book files: base name -> JSON text
    tsv_file,     \* the tabular output: NoFile or File(its list of rows)
    json_file,    \* the structured output: NoFile or File(its JSON text)
    error_data,   \* the results mapping of the run
    shared,       \* the default results mapping of collect_spellcheck_error_data_in_file
    args,         \* lang_code, spellcheck_func, overwrite of the run
    dpc,          \* "idle", "loop", "done", "failed"; "off" outside Spec
    fi,           \* position of the for loop in folder
    before,       \* history: the outputs of the completed run this run follows
    touched,      \* history: a call outside a run came after the last run
    tokenized,    \* history: positions whose text this run gave to calculate_error_rate
    written,      \* history: positions whose per-book file this run wrote
    json_written  \* history: this run wrote the structured output

driver_vars == <<folder, d, outfolder, tsv_file, json_file, error_data, shared,
                 args, dpc, fi, before, touched, tokenized, written, json_written>>

vars == <<walk_vars, driver_vars>>

NoFile == [exists |-> FALSE]

File(c) == [exists |-> TRUE, content |-> c]

DriverOff ==
    /\ folder = <<>> /\ d = [neg |-> FALSE, toks |-> {}]
    /\ outfolder = <<>> /\ tsv_file = NoFile /\ json_file = NoFile
    /\ error_data = <<>> /\ shared = <<>> /\ args = <<>> /\ dpc = "off" /\ fi = 0
    /\ before = [valid |-> FALSE] /\ touched = FALSE
    /\ tokenized = {} /\ written = {} /\ json_written = FALSE

WalkOff ==
    /\ t = <<>> /\ spellcheck_func = [neg |-> FALSE, toks |-> {}]
    /\ token_regex = {} /\ long = 0 /\ segs = <<>> /\ si = 0 /\ toks = <<>>
    /\ errors = ZeroErrors /\ page_errors = ZeroPage /\ pc = "off" /\ cur = <<>>

WalkInit ==
    /\ DriverOff
    /\ t \in Texts \cup {ExampleText}
    /\ spellcheck_func \in Predicates
    /\ token_regex \in TokenPatterns
    /\ long \in LongValues
    /\ segs = re_split(t)
    /\ si = 1
    /\ toks = <<>>
    /\ errors = ZeroErrors
    /\ page_errors = ZeroPage
    /\ pc = "seg"
    /\ cur = <<>>

WalkNext ==
    \/ Flush /\ UNCHANGED driver_vars
    \/ Tokenize /\ UNCHANGED driver_vars
    \/ Count /\ UNCHANGED driver_vars
    \/ EndSegment /\ UNCHANGED driver_vars
    \/ Return /\ UNCHANGED driver_vars

WalkSpec == WalkInit /\ [][WalkNext]_vars

\* --- the same function in one piece, as its callers see it
RECURSIVE WalkToks(_, _, _, _)
WalkToks(st, tks, f, lng) ==
    IF tks = <<>> THEN st
    ELSE WalkToks(CountToken(st.errors, st.page_errors, Head(tks), f, lng),
                  Tail(tks), f, lng)

RECURSIVE WalkSegs(_, _, _, _, _)
WalkSegs(st, ss, f, cls, lng) ==
    IF ss = <<>> THEN st
    ELSE LET p == Head(ss)
             nx == IF IsFlushSegment(p) THEN FlushPage(st.errors, st.page_errors, p)
                   ELSE IF p # <<>> THEN WalkToks(st, finditer(cls, p), f, lng)
                   ELSE st
         IN  WalkSegs(nx, Tail(ss), f, cls, lng)

\* the outcome of a call that raised instead of returning a dict
ZeroDivisionError == [raised |-> "ZeroDivisionError"]

Raised(r) == "raised" \in DOMAIN r

\* calculate_error_rate returning rates of 0 for a text without tokens
calculate_error_rate_Guarded(txt, f, cls, lng) ==
    LET e == WalkSegs([errors |-> ZeroErrors, page_errors |-> ZeroPage],
                      re_split(txt), f, cls, lng).errors
    IN  e @@ [error_rate |-> <<0, 1>>, long_tokens_error_rate |-> <<0, 1>>]

calculate_error_rate(txt, f, cls, lng) ==
    LET e == WalkSegs([errors |-> ZeroErrors, page_errors |-> ZeroPage],
                      re_split(txt), f, cls, lng).errors
    IN  IF e.tok_count = 0 THEN ZeroDivisionError ELSE WithRates(e)

\* the step machine and the function agree
WalkAgrees ==
    /\ pc = "done" => errors = calculate_error_rate(t, spellcheck_func, token_regex, long)
    /\ pc = "raised" =>
         calculate_error_rate(t, spellcheck_func, token_regex, long) = ZeroDivisionError

\* ------------------------------------------------------------ dicts and JSON
\* a dict is a function from its keys
SetKey(dct, k, v) == [x \in DOMAIN dct \cup {k} |-> IF x = k THEN v ELSE dct[x]]

DelKey(dct, k) == [x \in DOMAIN dct \ {k} |-> dct[x]]

EmptyDict == [x \in {} |-> 0]

\* the keys of the records, in the order sort_keys gives them
KeyOrder ==
    <<"all", "error_rate", "long", "long_tokens_error_rate", "page_errors",
      "page_no", "tok_count">>

\* A JSON object is the list of its <<key, value>> members as written, that is
\* sorted by key.  A number is written so that reading it gives the same number
\* (repr of a float round-trips), which is how a number is modelled here.
DumpObject(dct, order) ==
    LET Has(k) == k \in DOMAIN dct
        ks == SelectSeq(order, Has)
    IN  [i \in 1..Len(ks) |-> <<ks[i], dct[ks[i]]>>]

LoadObject(js) ==
    [k \in { js[i][1] : i \in DOMAIN js } |->
        js[CHOOSE i \in DOMAIN js : js[i][1] = k][2]]

HasKey(js, k) == \E i \in DOMAIN js : js[i][1] = k

\* json.dump(error_data[v_uri], ..., sort_keys=True) of a book's dict
json_dump(r) ==
    DumpObject([r EXCEPT !["page_errors"] =
                   [i \in DOMAIN @ |-> DumpObject(@[i], KeyOrder)]], KeyOrder)

\* json.load of a per-book file
json_load(js) ==
    LET o == LoadObject(js)
    IN  IF "page_errors" \in DOMAIN o
        THEN [o EXCEPT !["page_errors"] = [i \in DOMAIN @ |-> LoadObject(@[i])]]
        ELSE o

\* ------------------------------------------------------------------- paths
RECURSIVE LastIndex(_, _, _)
\* the last position <= i at which sub occurs in s, 0 when there is none
LastIndex(s, sub, i) ==
    IF i < 1 THEN 0
    ELSE IF startswith(SubSeq(s, i, Len(s)), sub) THEN i
    ELSE LastIndex(s, sub, i - 1)

\* sub in s
Contains(s, sub) == LastIndex(s, sub, Len(s)) > 0

\* os.path.basename(fp)
basename(fp) == SubSeq(fp, LastIndex(fp, <<"/">>, Len(fp)) + 1, Len(fp))

\* t.split("#META#Header#End")[-1]: what follows the last end-of-header marker,
\* the whole text when there is none
AfterHeader(txt) ==
    LET i == LastIndex(txt, META_END, Len(txt))
    IN  IF i = 0 THEN txt ELSE SubSeq(txt, i + Len(META_END), Len(txt))

ara == <<"a", "r", "a">>

per == <<"p", "e", "r">>

\* Python's None, as a value that is no string of characters
None == <<"None">>

LangCodes == {ara, per, None}

x_ara1 == <<"x", "-", "a", "r", "a", "1">>

y_per1 == <<"y", "-", "p", "e", "r", "1">>

z_ara1 == <<"z", "-", "a", "r", "a", "1">>

\* the base names, in the order sort_keys gives them
NameOrder == <<x_ara1, y_per1, z_ara1>>

\* the files a folder may hold: two Arabic books of the same base name in
\* different directories (one directory named like a Persian one), a Persian
\* book, and an Arabic file whose text has no Arabic token
Files ==
    { [path |-> <<"a", "/">> \o x_ara1,
       text |-> <<"kaf">> \o META_END \o kitab \o <<" ">> \o bab \o <<" ">>
                \o PageV01P001 \o kitab],
      [path |-> <<"c", "-", "p", "e", "r", "/">> \o x_ara1,
       text |-> bab \o <<" ">> \o PageV01P001],
      [path |-> <<"a", "/">> \o y_per1,
       text |-> META_END \o kitab \o <<" ">> \o PageV01P002 \o <<" ">>],
      [path |-> <<"a", "/">> \o z_ara1,
       text |-> kitab \o META_END \o hello \o <<" ">> \o PageV01P001] }

\* a folder lists each of its files once
Folders ==
    UNION { { fs \in [1..n -> Files] : \A i, j \in 1..n : fs[i] = fs[j] => i = j }
            : n \in 0..MaxFiles }

Dictionaries ==
    { [neg |-> FALSE, toks |-> {kitab}], [neg |-> FALSE, toks |-> {kitab, bab}] }

GivenPredicates ==
    { [neg |-> FALSE, toks |-> {kitab}], [neg |-> FALSE, toks |-> {}] }

\* check_with_pyEnchant: d.check(tok)
check_with_pyEnchant == d

\* -------------------------------------- collect_spellcheck_error_data_in_file
\* the del left out
StripPageErrors_Kept(rec) == rec

\* del error_data[v_uri]["page_errors"]
StripPageErrors(rec) == DelKey(rec, "page_errors")

\* One call, on the file f = [path, text], with the results mapping ed and the
\* per-book files out.  The result: whether the call raised, and the mapping
\* and the files it leaves.  calculate_error_rate is called with the text
\* alone, so with its defaults.
collect_spellcheck_error_data_in_file(f, given_func, ed, out, overwrite) ==
    LET v_uri == basename(f.path)
    IN  IF overwrite \/ v_uri \notin DOMAIN out
        THEN LET r == calculate_error_rate(AfterHeader(f.text), check_with_pyEnchant,
                                           ar_tok, DefaultLong)
             IN  IF Raised(r)
                 THEN [raised |-> TRUE, computed |-> TRUE, error_data |-> ed,
                       outfolder |-> out]
                 ELSE [raised     |-> FALSE,
                       computed   |-> TRUE,
                       error_data |-> SetKey(ed, v_uri, StripPageErrors(r)),
                       outfolder  |-> SetKey(out, v_uri, json_dump(r))]
        ELSE [raised     |-> FALSE,
              computed   |-> FALSE,
              error_data |-> SetKey(ed, v_uri, StripPageErrors(json_load(out[v_uri]))),
              outfolder  |-> out]

\* ------------------------------------ collect_spellcheck_error_data_in_folder
header == <<"uri", "all", "long", "error_rate", "long_tokens_error_rate", "tok_count">>

cols == Tail(header)

\* the filter applied to the base name instead of the path
Accepted_BaseNameOnly(fp, lang_code) ==
    (lang_code # None /\ lang_code # <<>>) =>
        Contains(basename(fp), <<"-">> \o lang_code)

\* the language filter of the loop
Accepted(fp, lang_code) ==
    (lang_code # None /\ lang_code # <<>>) => Contains(fp, <<"-">> \o lang_code)

\* [v_uri,] + [str(error_data[v_uri][col]) for col in cols]; str is one-to-one
\* on the ints and on the floats, a field is modelled by the value it prints
TsvRow(v_uri, rec) == <<v_uri>> \o [i \in 1..Len(cols) |-> rec[cols[i]]]

\* json.dump(error_data, ..., sort_keys=True) of the results mapping
json_dump_corpus(ed) ==
    DumpObject([u \in DOMAIN ed |-> DumpObject(ed[u], KeyOrder)], NameOrder)

NoRun == [valid |-> FALSE]

Init ==
    /\ WalkOff
    /\ folder \in Folders
    /\ d \in Dictionaries
    /\ outfolder = EmptyDict
    /\ tsv_file = NoFile
    /\ json_file = NoFile
    /\ error_data = EmptyDict
    /\ shared = EmptyDict
    /\ args = [lang_code |-> None, spellcheck_func |-> d, overwrite |-> FALSE]
    /\ dpc = "idle"
    /\ fi = 0
    /\ before = NoRun
    /\ touched = FALSE
    /\ tokenized = {}
    /\ written = {}
    /\ json_written = FALSE

\* the call, up to the loop: a fresh mapping and a tabular output of one row
StartRun(lang_code, given_func, overwrite) ==
    /\ dpc \in {"idle", "done", "failed"}
    /\ args' = [lang_code |-> lang_code, spellcheck_func |-> given_func,
                overwrite |-> overwrite]
    /\ error_data' = EmptyDict
    /\ tsv_file' = File(<<header>>)
    /\ fi' = 1
    /\ dpc' = "loop"
    /\ before' = IF dpc = "done" /\ ~ touched
                 THEN [valid |-> TRUE, lang_code |-> args.lang_code,
                       tsv_file |-> tsv_file, json_file |-> json_file]
                 ELSE NoRun
    /\ touched' = FALSE
    /\ tokenized' = {}
    /\ written' = {}
    /\ json_written' = FALSE
    /\ UNCHANGED <<folder, d, outfolder, json_file, shared>>

\* an iteration on a file the language filter rejects
SkipFile ==
    /\ dpc = "loop" /\ fi <= Len(folder)
    /\ ~ Accepted(folder[fi].path, args.lang_code)
    /\ fi' = fi + 1
    /\ UNCHANGED <<folder, d, outfolder, tsv_file, json_file, error_data, shared,
                   args, dpc, before, touched, tokenized, written, json_written>>

\* an iteration on an accepted file: the call, then the row; an exception of
\* the call ends the run, the tabular output closed as it is
ProcessFile ==
    /\ dpc = "loop" /\ fi <= Len(folder)
    /\ Accepted(folder[fi].path, args.lang_code)
    /\ LET v_uri == basename(folder[fi].path)
           r == collect_spellcheck_error_data_in_file(
                    folder[fi], args.spellcheck_func, error_data, outfolder,
                    args.overwrite)
       IN  /\ error_data' = r.error_data
           /\ outfolder' = r.outfolder
           /\ tokenized' = IF r.computed THEN tokenized \cup {fi} ELSE tokenized
           /\ written' = IF r.computed /\ ~ r.raised THEN written \cup {fi} ELSE written
           /\ IF r.raised
              THEN dpc' = "failed" /\ UNCHANGED <<tsv_file, fi>>
              ELSE /\ tsv_file' = File(Append(tsv_file.content,
                                               TsvRow(v_uri, r.error_data[v_uri])))
                   /\ fi' = fi + 1
                   /\ dpc' = dpc
    /\ UNCHANGED <<folder, d, json_file, shared, args, before, touched, json_written>>

\* after the loop: the structured output
FinishRun ==
    /\ dpc = "loop" /\ fi > Len(folder)
    /\ json_file' = File(json_dump_corpus(error_data))
    /\ json_written' = TRUE
    /\ dpc' = "done"
    /\ UNCHANGED <<folder, d, outfolder, tsv_file, error_data, shared, args, fi,
                   before, touched, tokenized, written>>

\* collect_spellcheck_error_data_in_file called on its own, between runs, on
\* its default results mapping (one dict, shared by all such calls)
DirectCall(i, given_func, overwrite) ==
    /\ dpc \in {"idle", "done", "failed"}
    /\ LET r == collect_spellcheck_error_data_in_file(
                    folder[i], given_func, shared, outfolder, overwrite)
       IN  shared' = r.error_data /\ outfolder' = r.outfolder
    /\ touched' = TRUE
    /\ UNCHANGED <<folder, d, tsv_file, json_file, error_data, args, dpc, fi,
                   before, tokenized, written, json_written>>

Next ==
    \/ \E lc \in LangCodes, f \in GivenPredicates, ow \in BOOLEAN :
           StartRun(lc, f, ow) /\ UNCHANGED walk_vars
    \/ SkipFile /\ UNCHANGED walk_vars
    \/ ProcessFile /\ UNCHANGED walk_vars
    \/ FinishRun /\ UNCHANGED walk_vars
    \/ \E i \in 1..Len(folder), f \in GivenPredicates, ow \in BOOLEAN :
           DirectCall(i, f, ow) /\ UNCHANGED walk_vars

Spec == Init /\ [][Next]_vars

\* ------------------------------------------------ claims on calculate_error_rate
Walking == pc \in {"seg", "tok", "done", "raised"}

RECURSIVE SumOf(_, _)
\* sum of counter k over a list of dicts
SumOf(ps, k) == IF ps = <<>> THEN 0 ELSE Head(ps)[k] + SumOf(Tail(ps), k)

RECURSIVE NumErrors(_, _, _)
\* how many tokens of tks the predicate f rejects, counting only those longer
\* than lng (lng = -1: all of them)
NumErrors(tks, f, lng) ==
    IF tks = <<>> THEN 0
    ELSE (IF ~ Call(f, Head(tks)) /\ Len(Head(tks)) > lng THEN 1 ELSE 0)
         + NumErrors(Tail(tks), f, lng)

RECURSIVE TokensOutsideMarkers(_, _)
\* the token matches of the segments that are not page markers
TokensOutsideMarkers(ss, cls) ==
    IF ss = <<>> THEN <<>>
    ELSE (IF IsMarker(Head(ss)) THEN <<>> ELSE finditer(cls, Head(ss)))
         \o TokensOutsideMarkers(Tail(ss), cls)

ExampleCase ==
    /\ t = ExampleText
    /\ token_regex = WordRuns
    /\ spellcheck_func = [neg |-> TRUE, toks |-> {foo}]
    /\ long = DefaultLong

\* C2 as stated: on the example text the result has totals tok_count = 3,
\* all = 1, long = 0 and a page list of the single record
\* {page_no: "PageV01P001", tok_count: 2, all: 0, long: 0}.
C2_AsStated ==
    (ExampleCase /\ pc = "done") =>
        /\ errors.tok_count = 3 /\ errors.all = 1 /\ errors.long = 0
        /\ errors.page_errors =
             << [page_no |-> PageV01P001, tok_count |-> 2, all |-> 0, long |-> 0] >>

\* C2 amended: on the example text the result has totals tok_count = 3, all = 1,
\* long = 0 and a page list of two records: an empty one stamped "PageV01P001"
\* (nothing precedes the first marker) and one stamped "PageV01P002" that holds
\* the two tokens between the markers; "foo", after the last marker, is in no record.
C2_ExampleResult ==
    (ExampleCase /\ pc = "done") =>
        /\ errors.tok_count = 3 /\ errors.all = 1 /\ errors.long = 0
        /\ errors.page_errors =
             << [page_no |-> PageV01P001, tok_count |-> 0, all |-> 0, long |-> 0],
                [page_no |-> PageV01P002, tok_count |-> 2, all |-> 0, long |-> 0] >>

C2_Witness == ExampleCase /\ pc = "done"

Ordered(c) == 0 <= c.long /\ c.long <= c.all /\ c.all <= c.tok_count

\* a rate n/d equals a/b and lies in [0, 1]
IsRate(r, a, b) == r[2] > 0 /\ r[1] * b = a * r[2] /\ 0 <= r[1] /\ r[1] <= r[2]

\* C6: throughout the walk the book dict, the running page dict and every
\* recorded page satisfy 0 <= long <= all <= tok_count; a returned result has
\* tok_count > 0, error_rate = all/tok_count and long_tokens_error_rate =
\* long/tok_count, both in [0, 1].
C6_CountersOrdered ==
    Walking =>
        /\ Ordered(errors)
        /\ Ordered(page_errors)
        /\ \A i \in 1..Len(errors.page_errors) : Ordered(errors.page_errors[i])
        /\ pc = "done" =>
             /\ errors.tok_count > 0
             /\ IsRate(errors.error_rate, errors.all, errors.tok_count)
             /\ IsRate(errors.long_tokens_error_rate, errors.long, errors.tok_count)

C6_Witness ==
    /\ pc = "done"
    /\ 0 < errors.long /\ errors.long < errors.all /\ errors.all < errors.tok_count
    /\ \E i \in 1..Len(errors.page_errors) : errors.page_errors[i].all > 0

\* C8 as stated: only page markers flush, so the page list has one record per
\* marker met so far, and at the end every token match of the other segments
\* has been counted.
C8_AsStated ==
    Walking =>
        /\ Len(errors.page_errors)
             = Cardinality({ i \in 1..(si - 1) : IsMarker(segs[i]) })
        /\ pc = "done" =>
             errors.tok_count = Len(TokensOutsideMarkers(segs, token_regex))

FlushDue == pc = "seg" /\ si <= Len(segs) /\ IsFlushSegment(segs[si])

\* C9: the page list only grows at its end and its records never change; a
\* flush appends exactly one record, stamped with the segment that caused it
\* and holding the counts of the tokens met since the previous flush, and
\* leaves the running dict zeroed with an empty page_no; no other step,
\* the return included, appends anything.
C9_PageListAppendOnly ==
    [][ LET old == errors.page_errors
            new == errors'.page_errors
        IN  /\ Len(new) >= Len(old)
            /\ SubSeq(new, 1, Len(old)) = old
            /\ FlushDue =>
                 /\ Len(new) = Len(old) + 1
                 /\ new[Len(new)] =
                      [page_no   |-> segs[si],
                       tok_count |-> Len(cur),
                       all       |-> NumErrors(cur, spellcheck_func, -1),
                       long      |-> NumErrors(cur, spellcheck_func, long)]
                 /\ page_errors' = ZeroPage
            /\ ~ FlushDue => Len(new) = Len(old)
      ]_vars

C9_Witness ==
    /\ pc = "done"
    /\ Len(errors.page_errors) >= 1
    /\ errors.page_errors[1].all > 0
    /\ cur # <<>>

\* C10: for tok_count, all and long, the book value is the sum over the
\* recorded pages plus the value of the running page dict; at the end the
\* recorded pages sum to at most the book's tok_count, with equality exactly
\* when no token was counted after the last flush.
C10_Conservation ==
    Walking =>
        /\ \A k \in {"tok_count", "all", "long"} :
             errors[k] = SumOf(errors.page_errors, k) + page_errors[k]
        /\ pc = "done" =>
             /\ SumOf(errors.page_errors, "tok_count") <= errors.tok_count
             /\ (SumOf(errors.page_errors, "tok_count") = errors.tok_count) <=> (cur = <<>>)

C10_Witness ==
    /\ pc = "done"
    /\ SumOf(errors.page_errors, "all") > 0
    /\ SumOf(errors.page_errors, "tok_count") < errors.tok_count

C10_WitnessEqual ==
    /\ pc = "done"
    /\ Len(errors.page_errors) > 0
    /\ SumOf(errors.page_errors, "tok_count") = errors.tok_count

\* ------------------------- claims on collect_spellcheck_error_data_in_folder
Running == dpc \in {"idle", "loop", "done", "failed"}

\* what the filter of the loop is said to be
Passes(fp, lang_code) ==
    lang_code = None \/ Contains(fp, <<"-">> \o lang_code)

RECURSIVE NamesOfPassing(_, _)
\* the base names of the first n files that pass the filter, in order
NamesOfPassing(n, lang_code) ==
    IF n = 0 THEN <<>>
    ELSE NamesOfPassing(n - 1, lang_code)
         \o (IF Passes(folder[n].path, lang_code)
             THEN << basename(folder[n].path) >> ELSE <<>>)

PassingBefore(n) ==
    { i \in 1..(n - 1) : Passes(folder[i].path, args.lang_code) }

Body(i) == AfterHeader(folder[i].text)

\* C1 as stated: the record a run computes for a book counts as errors the
\* tokens the predicate given to the run rejects.
C1_AsStated ==
    (dpc \in {"loop", "done"} /\ fi > 1 /\ (fi - 1) \in written) =>
        error_data[basename(folder[fi - 1].path)].all
          = calculate_error_rate(Body(fi - 1), args.spellcheck_func, ar_tok,
                                 DefaultLong).all

\* what the code does instead: it counts with the dictionary loaded at import
C1_CountsWithDictionary ==
    (dpc \in {"loop", "done"} /\ fi > 1 /\ (fi - 1) \in written) =>
        error_data[basename(folder[fi - 1].path)].all
          = NumErrors(finditer(ar_tok, Body(fi - 1)), d, -1)

\* C3: whatever calls were made, by a run or on their own, on the compute path
\* or the cache path, no entry of a results mapping and no entry of the
\* structured output has a "page_errors" key, and every per-book file has one.
C3_PageErrorsOnlyOnDisk ==
    Running =>
        /\ \A u \in DOMAIN error_data : "page_errors" \notin DOMAIN error_data[u]
        /\ \A u \in DOMAIN shared : "page_errors" \notin DOMAIN shared[u]
        /\ json_file.exists =>
             \A i \in DOMAIN json_file.content :
                 ~ HasKey(json_file.content[i][2], "page_errors")
        /\ \A n \in DOMAIN outfolder : HasKey(outfolder[n], "page_errors")

\* a run that took both paths, after calls made outside a run
C3_Witness ==
    /\ dpc = "done"
    /\ written # {}
    /\ \E i \in PassingBefore(fi) : i \notin tokenized
    /\ shared # EmptyDict
    /\ Len(json_file.content) > 0

\* the run follows a completed run with the same language filter and does not
\* overwrite
Rerun == before.valid /\ ~ args.overwrite /\ args.lang_code = before.lang_code

\* C4 as stated: a second run with overwrite=False on the unchanged folder
\* tokenizes nothing, writes no per-book file and produces the two outputs of
\* the first run.
C4_AsStated ==
    (dpc \in {"loop", "done"} /\ Rerun) =>
        /\ tokenized = {} /\ written = {}
        /\ dpc = "done" =>
             tsv_file = before.tsv_file /\ json_file = before.json_file

DistinctNames ==
    \A i, j \in 1..Len(folder) :
        basename(folder[i].path) = basename(folder[j].path) => i = j

\* C4 where it holds: when no two files of the folder share a base name
C4_DistinctNames == DistinctNames => C4_AsStated

C4_Witness ==
    /\ DistinctNames /\ Rerun /\ dpc = "done"
    /\ Len(tsv_file.content) > 2

\* the file the loop is at is accepted, has no token and no per-book file to reuse
FailingCase ==
    /\ dpc = "loop" /\ fi <= Len(folder)
    /\ Passes(folder[fi].path, args.lang_code)
    /\ finditer(ar_tok, Body(fi)) = <<>>
    /\ args.overwrite \/ basename(folder[fi].path) \notin DOMAIN outfolder

\* the state a failed run is left in
Halted ==
    /\ Len(tsv_file.content) = 1 + Cardinality(PassingBefore(fi))
    /\ tsv_file.content[1] = header
    /\ [i \in 1..(Len(tsv_file.content) - 1) |-> tsv_file.content[i + 1][1]]
         = NamesOfPassing(fi - 1, args.lang_code)
    /\ \A i \in PassingBefore(fi) :
         LET v == basename(folder[i].path)
         IN  /\ v \in DOMAIN outfolder
             /\ (\A j \in PassingBefore(fi) : basename(folder[j].path) = v => j = i)
                  => \E k \in 2..Len(tsv_file.content) :
                         tsv_file.content[k] = TsvRow(v, error_data[v])
    /\ ~ json_written
    /\ fi \notin written

\* C5: an accepted book without tokens and without a reusable per-book file
\* makes the run fail at that book, the step writing nothing; a failed run has
\* in its tabular output the header and the rows of the books accepted before,
\* has written no structured output and no per-book file at the failing
\* book, and the per-book files of the books before exist.
C5_FailureLeavesPrefix ==
    /\ [][ FailingCase =>
             /\ dpc' = "failed"
             /\ UNCHANGED <<tsv_file, json_file, outfolder, error_data, fi,
                            written, json_written>> ]_vars
    /\ [](dpc = "failed" => Halted)

C5_Witness ==
    /\ dpc = "failed"
    /\ fi = 2
    /\ finditer(ar_tok, Body(fi)) = <<>>
    /\ Len(tsv_file.content) = 2
    /\ json_file.exists

====
